---- MODULE Spec2Model ----
(***************************************************************************)
(* SBG status decoder (streamlit_app.py).                                  *)
(*                                                                         *)
(* decode_status walks the field list of one status definition and turns   *)
(* an integer status code into a list of flag descriptions.  The script    *)
(* around it loads status_codes.yaml, shows a type selector and a text     *)
(* input, and calls decode_status when the button is pressed.              *)
(*                                                                         *)
(* Python values are modelled as follows: a dict is a function whose       *)
(* DOMAIN is its key set; the object loaded from the YAML file is a tagged *)
(* record [tag, items]; text typed by the user is a sequence of            *)
(* one-character strings; integers are unbounded, as in Python.            *)
(***************************************************************************)
EXTENDS Integers, Sequences, FiniteSets, TLC

VARIABLES
    yaml_file,           \* the file status_codes.yaml as the process finds it
    STATUS_CODES,        \* module global, result of load_definitions()
    status_type,         \* value of the selectbox widget
    decimal_code_input,  \* value of the text_input widget
    button,              \* value of st.button in the current script run
    messages,            \* what the current script run rendered through st.*
    pc,                  \* position of the current script run
    decimal_code,        \* decode_status argument
    status_definition,   \* decode_status argument
    fields_to_check,     \* decode_status local
    idx,                 \* position of the for loop in fields_to_check
    active_flags,        \* decode_status local, the value returned
    exception,           \* exception propagating out of the current frame
    invocations          \* calls of decode_status made by the current script run

vars == <<yaml_file, STATUS_CODES, status_type, decimal_code_input, button,
          messages, pc, decimal_code, status_definition, fields_to_check,
          idx, active_flags, exception, invocations>>

appvars == <<yaml_file, STATUS_CODES, status_type, decimal_code_input, button>>

(***************************************************************************)
(* Bounds of the model.                                                    *)
(***************************************************************************)
MaxFields == 2      \* longest field list drawn for a direct decode_status call
MaxCode == 7        \* codes drawn for a direct call are -MaxCode..MaxCode
MaxInputLen == 2    \* longest text typed into the code input

(***************************************************************************)
(* Python integer operators.  Python integers are unbounded and behave as  *)
(* infinite two's complement under &, << and >>; \div and % below are the  *)
(* floor division and the non-negative remainder.                          *)
(***************************************************************************)
RECURSIVE Pow2(_)
Pow2(n) == IF n <= 0 THEN 1 ELSE 2 * Pow2(n - 1)

\* a << n ; a negative shift count raises ValueError, see ShiftCountOk
ShiftLeft(a, n) == a * Pow2(n)

\* a >> n
ShiftRight(a, n) == a \div Pow2(n)

ShiftCountOk(n) == n >= 0

\* a & b
RECURSIVE BitAnd(_, _)
BitAnd(a, b) ==
    IF a = 0 \/ b = 0 THEN 0
    ELSE IF a = -1 THEN b
    ELSE IF b = -1 THEN a
    ELSE (a % 2) * (b % 2) + 2 * BitAnd(a \div 2, b \div 2)

(***************************************************************************)
(* dict helpers                                                            *)
(***************************************************************************)
HasKey(d, k) == k \in DOMAIN d

\* d.get(k, default)
DictGet(d, k, default) == IF HasKey(d, k) THEN d[k] ELSE default

(***************************************************************************)
(* decode_status, one iteration of the for loop (lines 22-36).             *)
(*                                                                         *)
(* The result of an iteration is one of                                    *)
(*   [kind |-> "append", value |-> s]   s was appended to active_flags     *)
(*   [kind |-> "pass",   value |-> ""]  nothing happened                   *)
(*   [kind |-> "raise",  value |-> e]   exception e left the try body      *)
(* where e is [type |-> "KeyError", arg |-> key] or                        *)
(* [type |-> "ValueError", arg |-> "negative shift count"].                *)
(***************************************************************************)
Appended(s) == [kind |-> "append", value |-> s]
Passed == [kind |-> "pass", value |-> ""]
Raised(t, a) == [kind |-> "raise", value |-> [type |-> t, arg |-> a]]
KeyError(k) == Raised("KeyError", k)
NegativeShift == Raised("ValueError", "negative shift count")

\* variant: the bit index taken one too high
bit_value_shifted(bit) == ShiftLeft(1, bit + 1)

\* line 24
bit_value(bit) == ShiftLeft(1, bit)

\* line 25
MaskTest(code, bit) == BitAnd(code, bit_value(bit)) = bit_value(bit)

\* variant: mask applied before the shift
enum_val_mask_first(code, shift, mask) == ShiftRight(BitAnd(code, mask), shift)

\* line 30
enum_val(code, shift, mask) == BitAnd(ShiftRight(code, shift), mask)

\* variant: the fallback label without the extracted value
enum_name_no_value(values, v) == DictGet(values, v, "Unbekannter Wert")

\* line 32: field['values'].get(enum_val, f"Unbekannter Wert ({enum_val})")
enum_name(values, v) ==
    DictGet(values, v, "Unbekannter Wert (" \o ToString(v) \o ")")

\* line 33: f"{field['name']}: {enum_name}"
EnumEntry(name, label) == name \o ": " \o label

\* lines 23-26
MaskBranch(field, code) ==
    IF ~HasKey(field, "bit") THEN KeyError("bit")
    ELSE IF ~ShiftCountOk(field["bit"]) THEN NegativeShift
    ELSE IF MaskTest(code, field["bit"])
         THEN IF ~HasKey(field, "name") THEN KeyError("name")
              ELSE Appended(field["name"])
         ELSE Passed

\* lines 28-33
EnumBranch(field, code) ==
    IF ~HasKey(field, "shift") THEN KeyError("shift")
    ELSE IF ~ShiftCountOk(field["shift"]) THEN NegativeShift
    ELSE IF ~HasKey(field, "mask") THEN KeyError("mask")
    ELSE IF ~HasKey(field, "values") THEN KeyError("values")
    ELSE IF ~HasKey(field, "name") THEN KeyError("name")
    ELSE Appended(EnumEntry(field["name"],
                  enum_name(field["values"],
                            enum_val(code, field["shift"], field["mask"]))))

\* lines 23-33, the body of the try statement
TryBody(field, code) ==
    IF ~HasKey(field, "type") THEN KeyError("type")
    ELSE IF field["type"] = "mask" THEN MaskBranch(field, code)
    ELSE IF field["type"] = "enum" THEN EnumBranch(field, code)
    ELSE Passed

\* variant: no except clause, every exception leaves decode_status
ExceptClause_none(e) == FALSE

\* line 34: except KeyError as e
ExceptClause(e) == e.type = "KeyError"

\* line 36: the text of st.warning; str(KeyError('bit')) is "'bit'"
FieldWarning(e) ==
    [level |-> "warning",
     text |-> "Ein fehlerhaftes Feld in der YAML-Definition wird übersprungen: Fehlender Schlüssel '"
              \o e.arg \o "'"]

\* variant: the entry inserted at the front
AppendFlag_front(flags, entry) == <<entry>> \o flags

\* lines 26 and 33: active_flags.append(entry)
AppendFlag(flags, entry) == Append(flags, entry)

\* variant: the loop left after the iteration (break)
NextField_break(i, n) == n + 1

\* line 21: the for loop moves to the next field after a handled iteration
NextField(i, n) == i + 1

NoException == [type |-> "", arg |-> ""]
NoDefinition == <<>>

(***************************************************************************)
(* decode_status as a state machine: entry (lines 18-19), one action per   *)
(* loop iteration (lines 21-36) and the return (line 38).                  *)
(***************************************************************************)
DecodeEnter ==
    /\ pc = "call"
    /\ active_flags' = <<>>
    /\ fields_to_check' = DictGet(status_definition, "fields", <<>>)
    /\ idx' = 1
    /\ pc' = "loop"
    /\ invocations' = invocations + 1
    /\ UNCHANGED <<appvars, messages, decimal_code, status_definition, exception>>

DecodeField ==
    /\ pc = "loop"
    /\ idx <= Len(fields_to_check)
    /\ LET r == TryBody(fields_to_check[idx], decimal_code) IN
         \/ /\ r.kind = "append"
            /\ active_flags' = AppendFlag(active_flags, r.value)
            /\ idx' = NextField(idx, Len(fields_to_check))
            /\ UNCHANGED <<messages, pc, exception>>
         \/ /\ r.kind = "pass"
            /\ idx' = NextField(idx, Len(fields_to_check))
            /\ UNCHANGED <<active_flags, messages, pc, exception>>
         \/ /\ r.kind = "raise"
            /\ ExceptClause(r.value)
            /\ messages' = Append(messages, FieldWarning(r.value))
            /\ idx' = NextField(idx, Len(fields_to_check))
            /\ UNCHANGED <<active_flags, pc, exception>>
         \/ /\ r.kind = "raise"
            /\ ~ExceptClause(r.value)
            /\ exception' = r.value
            /\ pc' = "raised"
            /\ UNCHANGED <<active_flags, messages, idx>>
    /\ UNCHANGED <<appvars, decimal_code, status_definition, fields_to_check,
                   invocations>>

DecodeReturn ==
    /\ pc = "loop"
    /\ idx > Len(fields_to_check)
    /\ pc' = "returned"
    /\ UNCHANGED <<appvars, messages, decimal_code, status_definition,
                   fields_to_check, idx, active_flags, exception, invocations>>

(***************************************************************************)
(* int(decimal_code_input), line 189.  int() strips surrounding            *)
(* whitespace, accepts one optional sign and then needs at least one       *)
(* digit; anything else raises ValueError.                                 *)
(***************************************************************************)
Digits == {"0", "1", "2", "3", "4", "5", "6", "7", "8", "9"}

DigitValue(c) ==
    CASE c = "0" -> 0 [] c = "1" -> 1 [] c = "2" -> 2 [] c = "3" -> 3
      [] c = "4" -> 4 [] c = "5" -> 5 [] c = "6" -> 6 [] c = "7" -> 7
      [] c = "8" -> 8 [] c = "9" -> 9

IsSpace(c) == c = " "

RECURSIVE StripLeft(_)
StripLeft(s) ==
    IF s # <<>> /\ IsSpace(Head(s)) THEN StripLeft(Tail(s)) ELSE s

RECURSIVE StripRight(_)
StripRight(s) ==
    IF s # <<>> /\ IsSpace(s[Len(s)])
    THEN StripRight(SubSeq(s, 1, Len(s) - 1)) ELSE s

Strip(s) == StripRight(StripLeft(s))

RECURSIVE DigitsValue(_)
DigitsValue(s) ==
    IF s = <<>> THEN 0
    ELSE 10 * DigitsValue(SubSeq(s, 1, Len(s) - 1)) + DigitValue(s[Len(s)])

\* [ok |-> whether int(s) returns, value |-> the integer it returns]
PyInt(s) ==
    LET t == Strip(s)
        signed == t # <<>> /\ Head(t) \in {"-", "+"}
        body == IF signed THEN Tail(t) ELSE t
        ok == body # <<>> /\ \A k \in 1..Len(body) : body[k] \in Digits
    IN  [ok |-> ok,
         value |-> IF ~ok THEN 0
                   ELSE IF signed /\ Head(t) = "-" THEN 0 - DigitsValue(body)
                   ELSE DigitsValue(body)]

(***************************************************************************)
(* The object yaml.safe_load returns: None, a mapping, a list or a scalar. *)
(***************************************************************************)
PyNone == [tag |-> "none", items |-> <<>>]
PyMap(m) == [tag |-> "map", items |-> m]
PyList(l) == [tag |-> "list", items |-> l]
PyStr(s) == [tag |-> "str", items |-> s]

\* bool(v), line 151: None and empty containers are false
Truthy(v) ==
    CASE v.tag = "none" -> FALSE
      [] v.tag = "str" -> v.items # ""
      [] v.tag = "list" -> Len(v.items) > 0
      [] v.tag = "map" -> DOMAIN v.items # {}

\* line 164: only a mapping has .keys(); anything else raises AttributeError
HasKeysMethod(v) == v.tag = "map"

\* the order sorted() puts the status type names in
KeyRank(k) == CASE k = "alpha" -> 1 [] k = "beta" -> 2

\* line 164 with line 169: the selectbox starts on the first sorted key
FirstSortedKey(m) ==
    CHOOSE k \in DOMAIN m : \A j \in DOMAIN m : KeyRank(k) <= KeyRank(j)

\* variant: the selection ignored, the first status type decoded
SelectedDefinition_first(codes, t) == codes.items[FirstSortedKey(codes.items)]

\* line 193: STATUS_CODES[status_type]
SelectedDefinition(codes, t) == codes.items[t]

Msg(l, t) == [level |-> l, text |-> t]

NotFoundError ==
    Msg("error", "FATALER FEHLER: Die Konfigurationsdatei 'status_codes.yaml' wurde nicht gefunden. "
                 \o "Bitte stellen Sie sicher, dass sie sich im selben Ordner wie die Anwendung befindet.")
YamlError(detail) ==
    Msg("error", "FATALER FEHLER: Die YAML-Datei 'status_codes.yaml' ist fehlerhaft. Details: "
                 \o detail)
CannotStartWarning ==
    Msg("warning", "Die Anwendung kann nicht gestartet werden, da die Definitionen der Status-Codes nicht geladen werden konnten.")
EmptyInputWarning == Msg("warning", "Bitte geben Sie einen Dezimalcode ein.")
InvalidInputError ==
    Msg("error", "Ungültige Eingabe. Bitte geben Sie eine gültige Ganzzahl ein.")
ResultsHeader == Msg("subheader", "Ergebnisse der Dekodierung")
\* line 200; the text starts with a check-mark emoji that a TLA+ string cannot hold
NoFlagsSuccess == Msg("success", "Keine aktiven Flags für diesen Code gefunden.")

\* line 180
Caption(codes, t) ==
    Msg("caption", DictGet(DictGet(codes.items, t, <<>>), "description", ""))

\* line 197: "".join([f"- {flag}\n" for flag in results])
RECURSIVE output_str(_)
output_str(results) ==
    IF results = <<>> THEN ""
    ELSE "- " \o Head(results) \o "\n" \o output_str(Tail(results))

\* what load_definitions rendered; st.cache_data replays it on every rerun
LoadMessages(f) ==
    IF f.kind = "missing" THEN <<NotFoundError>>
    ELSE IF f.kind = "invalid" THEN <<YamlError(f.detail)>>
    ELSE <<>>

\* lines 152-182 of a script run: header, widgets and caption
LayoutMessages == Append(LoadMessages(yaml_file), Caption(STATUS_CODES, status_type))

(***************************************************************************)
(* The script.  A script run is load_definitions (lines 134-148), the      *)
(* layout (lines 151-182 and 204-205) and the button handler (184-203).    *)
(* Every widget interaction runs the script again from the top with the    *)
(* widget values kept and the rendered output cleared.                     *)
(***************************************************************************)
load_definitions ==
    /\ pc = "start"
    /\ STATUS_CODES' = IF yaml_file.kind = "ok" THEN yaml_file.data ELSE PyNone
    /\ messages' = LoadMessages(yaml_file)
    /\ pc' = "layout"
    /\ UNCHANGED <<yaml_file, status_type, decimal_code_input, button,
                   decimal_code, status_definition, fields_to_check, idx,
                   active_flags, exception, invocations>>

\* line 205: STATUS_CODES is None or empty
LayoutRefuse ==
    /\ pc = "layout"
    /\ ~Truthy(STATUS_CODES)
    /\ messages' = Append(messages, CannotStartWarning)
    /\ pc' = "stopped"
    /\ UNCHANGED <<appvars, decimal_code, status_definition, fields_to_check,
                   idx, active_flags, exception, invocations>>

\* line 164 on a truthy object that is not a mapping
LayoutCrash ==
    /\ pc = "layout"
    /\ Truthy(STATUS_CODES)
    /\ ~HasKeysMethod(STATUS_CODES)
    /\ exception' = [type |-> "AttributeError", arg |-> "keys"]
    /\ pc' = "crashed"
    /\ UNCHANGED <<appvars, messages, decimal_code, status_definition,
                   fields_to_check, idx, active_flags, invocations>>

\* lines 152-184, first run: the button has not been pressed
LayoutShow ==
    /\ pc = "layout"
    /\ Truthy(STATUS_CODES)
    /\ HasKeysMethod(STATUS_CODES)
    /\ status_type' = FirstSortedKey(STATUS_CODES.items)
    /\ messages' = Append(messages, Caption(STATUS_CODES, status_type'))
    /\ pc' = "idle"
    /\ UNCHANGED <<yaml_file, STATUS_CODES, decimal_code_input, button,
                   decimal_code, status_definition, fields_to_check, idx,
                   active_flags, exception, invocations>>

\* a rerun that does not come from the button leaves the handler out
ResetLocals ==
    /\ decimal_code' = 0
    /\ status_definition' = NoDefinition
    /\ fields_to_check' = <<>>
    /\ idx' = 1
    /\ active_flags' = <<>>
    /\ exception' = NoException
    /\ invocations' = 0

SelectStatusType(t) ==
    /\ pc = "idle"
    /\ t \in DOMAIN STATUS_CODES.items
    /\ t # status_type
    /\ status_type' = t
    /\ button' = FALSE
    /\ messages' = Append(LoadMessages(yaml_file), Caption(STATUS_CODES, t))
    /\ ResetLocals
    /\ UNCHANGED <<yaml_file, STATUS_CODES, decimal_code_input, pc>>

EnterCode(s) ==
    /\ pc = "idle"
    /\ s # decimal_code_input
    /\ decimal_code_input' = s
    /\ button' = FALSE
    /\ messages' = LayoutMessages
    /\ ResetLocals
    /\ UNCHANGED <<yaml_file, STATUS_CODES, status_type, pc>>

\* lines 184-186
PressEmpty ==
    /\ pc = "idle"
    /\ decimal_code_input = <<>>
    /\ button' = TRUE
    /\ messages' = Append(LayoutMessages, EmptyInputWarning)
    /\ ResetLocals
    /\ UNCHANGED <<yaml_file, STATUS_CODES, status_type, decimal_code_input, pc>>

\* lines 184-189 and 202-203: int() raises ValueError
PressInvalid ==
    /\ pc = "idle"
    /\ decimal_code_input # <<>>
    /\ ~PyInt(decimal_code_input).ok
    /\ button' = TRUE
    /\ messages' = Append(LayoutMessages, InvalidInputError)
    /\ ResetLocals
    /\ UNCHANGED <<yaml_file, STATUS_CODES, status_type, decimal_code_input, pc>>

\* lines 184-193: up to the call of decode_status
PressDecode ==
    /\ pc = "idle"
    /\ decimal_code_input # <<>>
    /\ PyInt(decimal_code_input).ok
    /\ button' = TRUE
    /\ decimal_code' = PyInt(decimal_code_input).value
    /\ messages' = Append(LayoutMessages, ResultsHeader)
    /\ status_definition' = SelectedDefinition(STATUS_CODES, status_type)
    /\ fields_to_check' = <<>>
    /\ idx' = 1
    /\ active_flags' = <<>>
    /\ exception' = NoException
    /\ invocations' = 0
    /\ pc' = "call"
    /\ UNCHANGED <<yaml_file, STATUS_CODES, status_type, decimal_code_input>>

\* lines 195-200: decode_status returned
RenderResults ==
    /\ pc = "returned"
    /\ button
    /\ messages' = Append(messages,
                          IF active_flags # <<>>
                          THEN Msg("markdown", output_str(active_flags))
                          ELSE NoFlagsSuccess)
    /\ pc' = "idle"
    /\ UNCHANGED <<appvars, decimal_code, status_definition, fields_to_check,
                   idx, active_flags, exception, invocations>>

\* lines 202-203: decode_status raised ValueError or TypeError
RenderError ==
    /\ pc = "raised"
    /\ button
    /\ exception.type \in {"ValueError", "TypeError"}
    /\ messages' = Append(messages, InvalidInputError)
    /\ exception' = NoException
    /\ pc' = "idle"
    /\ UNCHANGED <<appvars, decimal_code, status_definition, fields_to_check,
                   idx, active_flags, invocations>>


(***************************************************************************)
(* Inputs.  Field mappings as status_codes.yaml can hold them: complete    *)
(* mask and enum fields, fields with keys left out, a field with an        *)
(* unrecognised type, a field without type, and a mask field whose bit is  *)
(* negative (1 << -1 raises ValueError).                                   *)
(***************************************************************************)
ModeValues == (0 :> "Idle" @@ 1 :> "Active")

MaskA == [type |-> "mask", bit |-> 0, name |-> "A"]
MaskB == [type |-> "mask", bit |-> 2, name |-> "B"]
MaskNoBit == [type |-> "mask", name |-> "C"]
MaskNoName == [type |-> "mask", bit |-> 1]
MaskBare == [type |-> "mask"]
MaskNegativeBit == [type |-> "mask", bit |-> -1, name |-> "D"]
EnumMode == [type |-> "enum", shift |-> 1, mask |-> 3, name |-> "Mode",
             values |-> ModeValues]
EnumState == [type |-> "enum", shift |-> 2, mask |-> 1, name |-> "State",
              values |-> (0 :> "Off" @@ 1 :> "On")]
EnumNoShift == [type |-> "enum", mask |-> 3, name |-> "Mode", values |-> ModeValues]
EnumNoMask == [type |-> "enum", shift |-> 1, name |-> "Mode", values |-> ModeValues]
EnumNoValues == [type |-> "enum", shift |-> 1, mask |-> 3, name |-> "Mode"]
EnumNoName == [type |-> "enum", shift |-> 1, mask |-> 3, values |-> ModeValues]
OtherType == [type |-> "flag", bit |-> 0, name |-> "E"]
NoType == [bit |-> 0, name |-> "F"]

FieldPool ==
    {MaskA, MaskB, MaskNoBit, MaskNoName, MaskBare, MaskNegativeBit,
     EnumMode, EnumState, EnumNoShift, EnumNoMask, EnumNoValues, EnumNoName,
     OtherType, NoType}

FieldLists == UNION {[1..n -> FieldPool] : n \in 0..MaxFields}

Codes == (0 - MaxCode)..MaxCode

\* status definitions for a direct call: with and without the fields key
Definitions ==
    {[fields |-> l] : l \in FieldLists} \cup {[description |-> "no fields"]}

Alphabet == {"1", "7", "-", "a", " "}

Inputs == UNION {[1..n -> Alphabet] : n \in 0..MaxInputLen}

AppDefinitions ==
    {[description |-> "General status", fields |-> <<MaskA, EnumMode>>],
     [fields |-> <<MaskNoBit, MaskB>>],
     [description |-> "Empty"],
     [fields |-> <<MaskA, MaskNegativeBit>>]}

Schemas ==
    [{"alpha"} -> AppDefinitions] \cup [{"alpha", "beta"} -> AppDefinitions]

FileOk(v) == [kind |-> "ok", detail |-> "", data |-> v]

YamlFiles ==
    {[kind |-> "missing", detail |-> "", data |-> PyNone],
     [kind |-> "invalid", detail |-> "mapping values are not allowed here",
      data |-> PyNone],
     FileOk(PyNone), FileOk(PyMap(<<>>)), FileOk(PyList(<<>>)),
     FileOk(PyList(<<"a", "b">>)), FileOk(PyStr("abc"))}
    \cup {FileOk(PyMap(m)) : m \in Schemas}

(***************************************************************************)
(* Spec: the application, from process start.                              *)
(***************************************************************************)
Init ==
    /\ yaml_file \in YamlFiles
    /\ STATUS_CODES = PyNone
    /\ status_type = ""
    /\ decimal_code_input = <<>>
    /\ button = FALSE
    /\ messages = <<>>
    /\ pc = "start"
    /\ decimal_code = 0
    /\ status_definition = NoDefinition
    /\ fields_to_check = <<>>
    /\ idx = 1
    /\ active_flags = <<>>
    /\ exception = NoException
    /\ invocations = 0

Next ==
    \/ load_definitions
    \/ LayoutRefuse
    \/ LayoutCrash
    \/ LayoutShow
    \/ \E t \in {"alpha", "beta"} : SelectStatusType(t)
    \/ \E s \in Inputs : EnterCode(s)
    \/ PressEmpty
    \/ PressInvalid
    \/ PressDecode
    \/ DecodeEnter
    \/ DecodeField
    \/ DecodeReturn
    \/ RenderResults
    \/ RenderError

Spec == Init /\ [][Next]_vars

(***************************************************************************)
(* SpecDecode: decode_status called directly on drawn arguments.           *)
(***************************************************************************)
InitDecode ==
    /\ decimal_code \in Codes
    /\ status_definition \in Definitions
    /\ yaml_file = FileOk(PyMap([k \in {"alpha"} |-> status_definition]))
    /\ STATUS_CODES = yaml_file.data
    /\ status_type = "alpha"
    /\ decimal_code_input = <<>>
    /\ button = FALSE
    /\ messages = <<>>
    /\ pc = "call"
    /\ fields_to_check = <<>>
    /\ idx = 1
    /\ active_flags = <<>>
    /\ exception = NoException
    /\ invocations = 0

NextDecode ==
    \/ DecodeEnter
    \/ DecodeField
    \/ DecodeReturn

SpecDecode == InitDecode /\ [][NextDecode]_vars

\* decode_status has no suspension point: a call that has started runs on
FairSpecDecode == SpecDecode /\ WF_vars(NextDecode)

(***************************************************************************)
(* Properties.                                                             *)
(***************************************************************************)
InLoop == pc = "loop" /\ idx <= Len(fields_to_check)
Current == fields_to_check[idx]
Previous == fields_to_check[idx - 1]
AfterIteration == pc = "loop" /\ idx > 1 /\ idx - 1 <= Len(fields_to_check)

WellFormedMask(f) ==
    /\ HasKey(f, "type") /\ f["type"] = "mask"
    /\ HasKey(f, "bit") /\ HasKey(f, "name")
    /\ f["bit"] >= 0

WellFormedEnum(f) ==
    /\ HasKey(f, "type") /\ f["type"] = "enum"
    /\ HasKey(f, "shift") /\ HasKey(f, "mask")
    /\ HasKey(f, "name") /\ HasKey(f, "values")
    /\ f["shift"] >= 0 /\ f["mask"] >= 0

\* the keys the declared type requires and the field does not have
MissingKeys(f) ==
    IF ~HasKey(f, "type") THEN {}
    ELSE IF f["type"] = "mask" THEN {"bit", "name"} \ DOMAIN f
    ELSE IF f["type"] = "enum" THEN {"shift", "mask", "name", "values"} \ DOMAIN f
    ELSE {}

Malformed(f) == MissingKeys(f) # {}

\* bit/shift/mask, where present, are non-negative integers
WellTypedField(f) ==
    \A k \in {"bit", "shift", "mask"} \cap DOMAIN f : f[k] \in Nat

WellTypedDefinition(d) ==
    HasKey(d, "fields") => \A k \in 1..Len(d["fields"]) : WellTypedField(d["fields"][k])

\* bit b of code, by arithmetic
BitIsOne(code, b) == (code \div Pow2(b)) % 2 = 1

\* the extracted value of an enum field: shift first, then mask
Extracted(f, code) == BitAnd(ShiftRight(code, f["shift"]), f["mask"])

MissingKeyWarning(k) ==
    Msg("warning", "Ein fehlerhaftes Feld in der YAML-Definition wird übersprungen: Fehlender Schlüssel '"
                   \o k \o "'")

\* the zero-or-one entry a field yields on its own
OwnEntry(f, code) ==
    IF WellFormedMask(f)
    THEN IF BitIsOne(code, f["bit"]) THEN <<f["name"]>> ELSE <<>>
    ELSE IF WellFormedEnum(f)
    THEN <<f["name"] \o ": " \o
           DictGet(f["values"], Extracted(f, code),
                   "Unbekannter Wert (" \o ToString(Extracted(f, code)) \o ")")>>
    ELSE <<>>

RECURSIVE ConcatEntries(_, _)
ConcatEntries(fs, code) ==
    IF fs = <<>> THEN <<>>
    ELSE OwnEntry(Head(fs), code) \o ConcatEntries(Tail(fs), code)

RemoveAt(fs, k) == SubSeq(fs, 1, k - 1) \o SubSeq(fs, k + 1, Len(fs))

\* C1: the iteration over a well-formed mask field appends the field's name
\* when bit b of the code is 1 and leaves active_flags alone when it is 0.
C1_MaskFlagIffBitSet ==
    [][(InLoop /\ WellFormedMask(Current)) =>
         active_flags' = IF BitIsOne(decimal_code, Current["bit"])
                         THEN Append(active_flags, Current["name"])
                         ELSE active_flags]_vars

C1_Witness ==
    /\ AfterIteration
    /\ WellFormedMask(Previous)
    /\ Previous["bit"] > 0
    /\ BitIsOne(decimal_code, Previous["bit"])
    /\ decimal_code < 0
    /\ active_flags # <<>>
    /\ active_flags[Len(active_flags)] = Previous["name"]

\* C2: the iteration over a well-formed enum field whose extracted value
\* v = (code >> shift) & mask is a key of values appends exactly one entry,
\* "{name}: {values[v]}", also when v = 0.
C2_EnumMappedEntry ==
    [][(InLoop /\ WellFormedEnum(Current)
          /\ Extracted(Current, decimal_code) \in DOMAIN Current["values"]) =>
         active_flags' =
             Append(active_flags,
                    Current["name"] \o ": "
                       \o Current["values"][Extracted(Current, decimal_code)])]_vars

C2_Witness ==
    /\ AfterIteration
    /\ WellFormedEnum(Previous)
    /\ Extracted(Previous, decimal_code) = 0
    /\ decimal_code # 0
    /\ active_flags # <<>>
    /\ active_flags[Len(active_flags)] = "Mode: Idle"

\* C3 as stated: an extracted value that is not a key of values is rendered
\* as "{name}: Unknown Value ({v})".
C3_UnknownValueLabel ==
    [][(InLoop /\ WellFormedEnum(Current)
          /\ Extracted(Current, decimal_code) \notin DOMAIN Current["values"]) =>
         active_flags' =
             Append(active_flags,
                    Current["name"] \o ": Unknown Value ("
                       \o ToString(Extracted(Current, decimal_code)) \o ")")]_vars

\* C3 amended: an extracted value that is not a key of values is not dropped;
\* the iteration appends exactly one entry, "{name}: Unbekannter Wert ({v})"
\* with v in decimal.
C3_FallbackLabel ==
    [][(InLoop /\ WellFormedEnum(Current)
          /\ Extracted(Current, decimal_code) \notin DOMAIN Current["values"]) =>
         /\ active_flags' =
                Append(active_flags,
                       Current["name"] \o ": Unbekannter Wert ("
                          \o ToString(Extracted(Current, decimal_code)) \o ")")
         /\ pc' = "loop"]_vars

C3_Witness ==
    /\ AfterIteration
    /\ WellFormedEnum(Previous)
    /\ Extracted(Previous, decimal_code) = 3
    /\ active_flags # <<>>
    /\ active_flags[Len(active_flags)] = "Mode: Unbekannter Wert (3)"

\* C4: at every point of the loop, and at the return, active_flags is the
\* concatenation, in field order, of the zero-or-one entry of each field
\* handled so far.
C4_OrderPreserved ==
    pc \in {"loop", "returned"} =>
        active_flags = ConcatEntries(SubSeq(fields_to_check, 1, idx - 1), decimal_code)

C4_Witness ==
    /\ pc = "returned"
    /\ Len(fields_to_check) >= 2
    /\ OwnEntry(fields_to_check[1], decimal_code) # <<>>
    /\ OwnEntry(fields_to_check[2], decimal_code) # <<>>
    /\ fields_to_check[1] # fields_to_check[2]
    /\ active_flags = OwnEntry(fields_to_check[1], decimal_code)
                         \o OwnEntry(fields_to_check[2], decimal_code)

\* C5: the iteration over a malformed field raises nothing, appends nothing
\* and moves on to the next field, and the list returned is the list the
\* same call returns with that field taken out of the field list.
C5_MalformedSkipped ==
    /\ [][(InLoop /\ Malformed(Current)) =>
            /\ pc' = "loop"
            /\ idx' = idx + 1
            /\ active_flags' = active_flags
            /\ exception' = exception]_vars
    /\ [](pc = "returned" =>
            \A k \in 1..Len(fields_to_check) :
                Malformed(fields_to_check[k]) =>
                    active_flags = ConcatEntries(RemoveAt(fields_to_check, k),
                                                 decimal_code))

C5_Witness ==
    /\ pc = "returned"
    /\ Len(fields_to_check) >= 2
    /\ Malformed(fields_to_check[1])
    /\ active_flags # <<>>
    /\ active_flags = OwnEntry(fields_to_check[2], decimal_code)

\* C6 as stated: the iteration over a malformed field emits exactly one
\* diagnostic naming a missing key, whatever the code; the iteration over a
\* well-formed field emits none.
C6_DiagnosticPerMalformedField ==
    [][InLoop =>
         /\ Malformed(Current) =>
                \E k \in MissingKeys(Current) :
                    messages' = Append(messages, MissingKeyWarning(k))
         /\ (WellFormedMask(Current) \/ WellFormedEnum(Current)) =>
                messages' = messages]_vars

\* C7 as stated: once the layout has run on a configuration that is absent,
\* empty or not a mapping, a fatal configuration error has been shown and
\* decode_status is not invoked; decode_status runs only on a non-empty
\* mapping.
UsableConfig(f) ==
    f.kind = "ok" /\ f.data.tag = "map" /\ DOMAIN f.data.items # {}

ConfigErrorShown ==
    \E k \in 1..Len(messages) :
        messages[k] \in {NotFoundError, YamlError(yaml_file.detail), CannotStartWarning}

C7_BadConfigRefused ==
    /\ (~UsableConfig(yaml_file) /\ pc \notin {"start", "layout"}) =>
           (ConfigErrorShown /\ invocations = 0
              /\ pc \notin {"call", "loop", "returned", "raised"})
    /\ pc \in {"call", "loop", "returned", "raised"} =>
           (STATUS_CODES.tag = "map" /\ DOMAIN STATUS_CODES.items # {})

\* C8: a press with an empty or unparseable code input ends the run with the
\* input reported and without a call of decode_status; decode_status runs
\* only in a run whose input int() accepts, on the integer int() returns and
\* the definition of the selected status type.
C8_InvalidInputNotDecoded ==
    /\ (button /\ ~PyInt(decimal_code_input).ok) =>
           /\ pc = "idle"
           /\ invocations = 0
           /\ messages # <<>>
           /\ messages[Len(messages)] =
                  IF decimal_code_input = <<>> THEN EmptyInputWarning
                  ELSE InvalidInputError
    /\ pc \in {"call", "loop", "returned", "raised"} =>
           /\ button
           /\ PyInt(decimal_code_input).ok
           /\ decimal_code = PyInt(decimal_code_input).value
           /\ status_definition = STATUS_CODES.items[status_type]
    /\ invocations > 0 => (button /\ PyInt(decimal_code_input).ok)

C8_Witness ==
    /\ button
    /\ pc = "returned"
    /\ status_type = "beta"
    /\ decimal_code = 17
    /\ STATUS_CODES.items["alpha"] # STATUS_CODES.items["beta"]
    /\ invocations = 1

\* C9: a call on a well-typed definition never raises, keeps the loop index
\* inside the field list, reaches the return, and returns a list of strings,
\* the empty list when the field list is empty or the fields key is absent.
C9_WellTypedNeverRaises ==
    /\ [](WellTypedDefinition(status_definition) =>
            /\ pc # "raised"
            /\ exception = NoException
            /\ idx \in 1..(Len(fields_to_check) + 1)
            /\ pc = "returned" =>
                 /\ \A k \in 1..Len(active_flags) : active_flags[k] \in STRING
                 /\ DictGet(status_definition, "fields", <<>>) = <<>> =>
                        active_flags = <<>>)
    /\ (WellTypedDefinition(status_definition) => <>(pc = "returned"))

C9_Witness ==
    /\ pc = "returned"
    /\ WellTypedDefinition(status_definition)
    /\ Len(fields_to_check) >= 2
    /\ Malformed(fields_to_check[1])
    /\ ~HasKey(fields_to_check[2], "type")
    /\ Len(messages) = 2

\* C10 as stated: the iteration over a field whose type is neither 'mask' nor
\* 'enum', or that has no type, appends nothing, moves on and emits a
\* diagnostic, which names 'type' when the key is absent.
C10_UnknownTypeDiagnosed ==
    [][(InLoop /\ (~HasKey(Current, "type")
                     \/ Current["type"] \notin {"mask", "enum"})) =>
         /\ active_flags' = active_flags
         /\ idx' = idx + 1
         /\ pc' = "loop"
         /\ Len(messages') = Len(messages) + 1
         /\ ~HasKey(Current, "type") =>
                messages' = Append(messages, MissingKeyWarning("type"))]_vars

====
